---- MODULE Spec2Model ----
(***************************************************************************)
(* Convention linter of Yahyaali1/model-vs-orm                             *)
(* (.github/scripts/run-convention-linter.js, current version, lines       *)
(* 1-641).  One run of the script is a sequential process; its position is *)
(* pc.  Every external operation (git, file system, HTTP) is a step whose  *)
(* outcome is chosen nondeterministically.                                 *)
(*                                                                         *)
(* Text is modelled as a sequence of lexical tokens: a path is a sequence  *)
(* such as <<"src", "/", "migrations", "/", "init", ".js">>, a response    *)
(* text is a sequence of characters.  endsWith / includes / trim are the   *)
(* suffix / infix / strip operations on these sequences.                   *)
(***************************************************************************)
EXTENDS Integers, Sequences, FiniteSets, TLC

(***************************************************************************)
(* Bounds                                                                  *)
(***************************************************************************)
\* longest list of changed files handed to generateDiffContent in SpecDiff
MaxFiles == 2
\* longest CHANGED_FILES list of a whole run (Spec)
MaxRunFiles == 1
\* longest raw reply text of the review endpoint
MaxRespLen == 3
\* longest prompt template, in tokens
MaxTemplateLen == 3
\* longest diff text handed to preparePrompts, in tokens
MaxDiffLen == 2

(***************************************************************************)
(* String helpers (String.prototype.endsWith / includes / trim)            *)
(***************************************************************************)
EndsWith(s, suffix) ==
    /\ Len(s) >= Len(suffix)
    /\ SubSeq(s, Len(s) - Len(suffix) + 1, Len(s)) = suffix

Includes(s, sub) ==
    \E i \in 1..(Len(s) - Len(sub) + 1) : SubSeq(s, i, i + Len(sub) - 1) = sub

RECURSIVE TrimStart(_)
TrimStart(s) ==
    IF s # <<>> /\ Head(s) = " " THEN TrimStart(Tail(s)) ELSE s

RECURSIVE TrimEnd(_)
TrimEnd(s) ==
    IF s # <<>> /\ s[Len(s)] = " " THEN TrimEnd(SubSeq(s, 1, Len(s) - 1)) ELSE s

Trim(s) == TrimEnd(TrimStart(s))

\* all sequences over S of length 0..n
SeqsUpTo(S, n) == UNION {[1..k -> S] : k \in 0..n}

(***************************************************************************)
(* Inputs                                                                  *)
(***************************************************************************)
\* changed paths, as token sequences
AgentModel        == <<"src", "/", "models", "/", "agent", ".model", ".ts">>
InitMigration     == <<"src", "/", "migrations", "/", "init", ".js">>
Readme            == <<"README", ".md">>
RootMigration     == <<"migrations", "/", "address", ".js">>
ModelInMigrations == <<"src", "/", "migrations", "/", "agent", ".model", ".js">>
MigrationNotes    == <<"src", "/", "migrations", "/", "notes", ".md">>
NestedMigration   == <<"db", "/", "migrations", "/", "v2", "/", "client", ".ts">>
OldMigrations     == <<"src", "/", "old", "migrations", "/", "a", ".js">>

Paths == {AgentModel, InitMigration, Readme, RootMigration, ModelInMigrations,
          MigrationNotes, NestedMigration, OldMigrations}

\* the paths of the spec's end-to-end scenario
RunPaths == {AgentModel, InitMigration, Readme}

Null == "<null>"
DiffTexts == {"", "@@ -1 +1 @@"}
\* outcome of execSync(`git diff ...`): the diff text, or a thrown error
GitFailed == "<git diff failed>"
DiffOutcomes == DiffTexts \cup {GitFailed}
\* state of the file on disk as getFileContent finds it
ContentOutcomes == {"ENOENT", "EACCES", "", "file text"}

RespChars == {"O", "K", " "}
RawTexts == SeqsUpTo(RespChars, MaxRespLen)

ProviderKeys == {"github", "gemini", "openai"}

VARIABLES
    argvHelp,       \* process.argv includes --help or -h
    env,            \* process.env
    pc,             \* position of the run
    provider,       \* main: const provider
    config,         \* main: const config (validateEnvironment's result)
    idx,            \* generateDiffContent: number of changedFiles processed
    diffData,       \* generateDiffContent: the bundle
    diffFailures,   \* positions in changedFiles whose git diff threw (line 339)
    diffRequests,   \* the paths `git diff` was run for, in order (line 304)
    templates,      \* prompt template files found by preparePrompts
    promptMode,     \* which branch of preparePrompts produced the prompts
    responseText,   \* main: const responseText
    verdict,        \* branch taken at line 557
    gitCalls,       \* number of execSync git commands issued
    reviewPosts,    \* POSTs sent to a provider endpoint, in order
    commentPosts,   \* POSTs sent to the PR comment endpoint, in order
    exitCode        \* process exit code, -1 while running

runVars == <<argvHelp, env, pc, provider, config, idx, diffData,
             diffFailures, diffRequests, templates, promptMode, responseText,
             verdict, gitCalls, reviewPosts, commentPosts, exitCode>>

VARIABLES
    promptFiles,    \* text of the prompt template files, Null when absent
    prompts,        \* preparePrompts: the returned { systemPrompt, userPrompt }
    verdicts,       \* branch the older scripts take on the same responseText
    debugThinking,  \* process.env.DEBUG_THINKING, "" when unset
    geminiResponse, \* callGemini: the response of the endpoint
    thinkingLog,    \* callGemini: reasoning traces written to the console
    migration,      \* the migration file being run
    direction,      \* its step: "up" or "down"
    mpc,            \* position inside the step
    opIdx,          \* number of queryInterface calls of the step made so far
    schema,         \* objects of the database as committed
    working,        \* objects as seen inside the open transaction
    txnCalls,       \* transaction(), commit() and rollback() calls of the step
    thrown,         \* the step rejected
    schemaBefore,   \* the committed objects before up started
    ciInputs,       \* what the workflow step hands to both shell and port
    shRun,          \* the run of run-convention-linter.sh on ciInputs
    portRun         \* the run of its JavaScript port on ciInputs

promptVars == <<promptFiles, prompts>>
verdictVars == <<verdicts>>
geminiVars == <<debugThinking, geminiResponse, thinkingLog>>
migrationVars == <<migration, direction, mpc, opIdx, schema, working,
                   txnCalls, thrown, schemaBefore>>

portVars == <<ciInputs, shRun, portRun>>

\* the state outside the run of the current script
otherVars == <<promptVars, verdictVars, geminiVars, migrationVars, portVars>>

vars == <<runVars, otherVars>>

(***************************************************************************)
(* Configuration data                                                      *)
(***************************************************************************)
\* AI_PROVIDERS[key].requiresToken and AI_PROVIDERS[key].endpoint (the host)
AI_PROVIDERS ==
    [p \in ProviderKeys |->
        [requiresToken |-> CASE p = "github" -> "GITHUB_TOKEN"
                             [] p = "gemini" -> "GEMINI_API_KEY"
                             [] p = "openai" -> "OPENAI_API_KEY",
         endpoint |-> CASE p = "github" -> "models.github.ai"
                        [] p = "gemini" -> "generativelanguage.googleapis.com"
                        [] p = "openai" -> "api.openai.com"]]

\* values of AI_PROVIDER: unset (""), the supported keys, an unsupported key
ProviderSettings == {""} \cup ProviderKeys \cup {"claude"}

\* CHANGED_FILES: unset, or set to the empty string (neither is truthy), or
\* a space-separated string whose non-empty words are the list `words` (a
\* string of blanks only is truthy and has no words)
ChangedFilesSettings ==
    {[set |-> FALSE, truthy |-> FALSE, words |-> <<>>],
     [set |-> TRUE, truthy |-> FALSE, words |-> <<>>]}
        \cup {[set |-> TRUE, truthy |-> TRUE, words |-> w] :
                  w \in SeqsUpTo(RunPaths, MaxRunFiles)}

\* environments of a run; a variable is TRUE when it is set to a non-empty
\* string.  GEMINI_API_KEY and OPENAI_API_KEY are read only when AI_PROVIDER
\* selects their provider (line 247), so they are left unset otherwise.
EnvSet ==
    {e \in [GITHUB_BASE_REF : BOOLEAN, CHANGED_FILES : ChangedFilesSettings,
             GITHUB_REPOSITORY : BOOLEAN, PR_NUMBER : BOOLEAN,
             AI_PROVIDER : ProviderSettings,
             GITHUB_TOKEN : BOOLEAN, GEMINI_API_KEY : BOOLEAN,
             OPENAI_API_KEY : BOOLEAN,
             POST_SUCCESS_COMMENTS : {"", "true", "false"}] :
        /\ e.GEMINI_API_KEY => e.AI_PROVIDER = "gemini"
        /\ e.OPENAI_API_KEY => e.AI_PROVIDER = "openai"}

EmptyDiffData ==
    [diffs |-> <<>>, modelFiles |-> <<>>, migrationFiles |-> <<>>, otherFiles |-> <<>>]

NoConfig == [changedFiles |-> <<>>, token |-> ""]
NoTemplates == [system |-> FALSE, user |-> FALSE, legacy |-> FALSE]
\* a file that does not exist
Absent == [exists |-> FALSE, text |-> <<>>]
NoPromptFiles == [system |-> Absent, user |-> Absent, legacy |-> Absent]
NoPrompts == [systemPrompt |-> <<>>, userPrompt |-> <<>>]

NoVerdicts == [legacy |-> "none", port |-> "none"]

PromptIdle ==
    /\ promptFiles = NoPromptFiles
    /\ prompts = NoPrompts

VerdictIdle == verdicts = NoVerdicts

NoGeminiResponse ==
    [status |-> "none", candidate |-> FALSE, text |-> <<>>, thought |-> FALSE]

GeminiIdle ==
    /\ debugThinking = ""
    /\ geminiResponse = NoGeminiResponse
    /\ thinkingLog = <<>>

MigrationIdle ==
    /\ migration = "none"
    /\ direction = "none"
    /\ mpc = "idle"
    /\ opIdx = 0
    /\ schema = {}
    /\ working = {}
    /\ txnCalls = <<>>
    /\ thrown = FALSE
    /\ schemaBefore = {}

NoCiInputs ==
    [missing |-> {}, changedFiles |-> "unset", outcomes |-> <<>>,
     fetchOk |-> TRUE, reply |-> [kind |-> "none", text |-> <<>>]]

\* a run of the shell script or of its port that has not started
NoScriptRun ==
    [pc |-> "idle", idx |-> 0, diffContent |-> <<>>, calls |-> 0,
     responseText |-> <<>>, output |-> <<>>, status |-> "none"]

PortIdle ==
    /\ ciInputs = NoCiInputs
    /\ shRun = NoScriptRun
    /\ portRun = NoScriptRun

\* nothing outside the run has happened
OtherIdle ==
    /\ PromptIdle
    /\ VerdictIdle
    /\ GeminiIdle
    /\ MigrationIdle
    /\ PortIdle

Init ==
    /\ OtherIdle
    /\ argvHelp \in BOOLEAN
    /\ env \in EnvSet
    /\ pc = "cli"
    /\ provider = ""
    /\ config = NoConfig
    /\ idx = 0
    /\ diffData = EmptyDiffData
    /\ diffFailures = {}
    /\ diffRequests = <<>>
    /\ templates = NoTemplates
    /\ promptMode = "none"
    /\ responseText = <<>>
    /\ verdict = "none"
    /\ gitCalls = 0
    /\ reviewPosts = <<>>
    /\ commentPosts = <<>>
    /\ exitCode = -1

\* process.exit(code), or the end of main with nothing pending
Exit(code) ==
    /\ pc' = "done"
    /\ exitCode' = code

(***************************************************************************)
(* CLI arguments (lines 631-641)                                           *)
(***************************************************************************)
\* mutant of CliArguments: usage is printed but process.exit(0) is left out
CliArguments_helpThenMain ==
    /\ pc = "cli"
    /\ pc' = "main"
    /\ UNCHANGED <<argvHelp, env, provider, config, idx, diffData,
                   diffFailures, diffRequests, templates, promptMode,
                   responseText, verdict, gitCalls, reviewPosts,
                   commentPosts, exitCode, otherVars>>

CliArguments ==
    /\ pc = "cli"
    /\ IF argvHelp
          THEN Exit(0)
          ELSE pc' = "main" /\ UNCHANGED exitCode
    /\ UNCHANGED <<argvHelp, env, provider, config, idx, diffData,
                   diffFailures, diffRequests, templates, promptMode,
                   responseText, verdict, gitCalls, reviewPosts,
                   commentPosts, otherVars>>

(***************************************************************************)
(* validateEnvironment (lines 235-258)                                     *)
(***************************************************************************)
\* line 238
MissingRequired(e) ==
    \/ ~e.GITHUB_BASE_REF
    \/ ~e.CHANGED_FILES.truthy
    \/ ~e.GITHUB_REPOSITORY
    \/ ~e.PR_NUMBER

\* process.env[name] is set, for the three credential variables
EnvHas(e, name) ==
    CASE name = "GITHUB_TOKEN" -> e.GITHUB_TOKEN
      [] name = "GEMINI_API_KEY" -> e.GEMINI_API_KEY
      [] name = "OPENAI_API_KEY" -> e.OPENAI_API_KEY

\* mutant of validateEnvironmentThrows: the credential check of lines 246-249
\* left out
validateEnvironmentThrows_noCredentialCheck(e, p) ==
    \/ MissingRequired(e)
    \/ p \notin ProviderKeys

\* validateEnvironment throws
validateEnvironmentThrows(e, p) ==
    \/ MissingRequired(e)
    \/ p \notin ProviderKeys
    \/ ~EnvHas(e, AI_PROVIDERS[p].requiresToken)

\* validateEnvironment's return value (lines 251-257)
\* mutant of validateEnvironment: GITHUB_TOKEN is handed to every provider
validateEnvironment_githubToken(e, p) ==
    [changedFiles |-> e.CHANGED_FILES.words,
     token |-> "GITHUB_TOKEN"]

validateEnvironment(e, p) ==
    [changedFiles |-> e.CHANGED_FILES.words,
     token |-> AI_PROVIDERS[p].requiresToken]

\* mutant of SelectedProvider: AI_PROVIDER ignored
SelectedProvider_alwaysDefault(e) == "github"

\* main, line 515: process.env.AI_PROVIDER || 'github'
SelectedProvider(e) ==
    IF e.AI_PROVIDER = "" THEN "github" ELSE e.AI_PROVIDER

\* main, lines 513-524: provider selection, validation, empty list
MainValidate ==
    /\ pc = "main"
    /\ LET p == SelectedProvider(env) IN
        /\ provider' = p
        /\ IF p \notin ProviderKeys
              \* line 516: AI_PROVIDERS[provider].name throws a TypeError
              THEN Exit(1) /\ UNCHANGED config
              ELSE IF validateEnvironmentThrows(env, p)
                THEN Exit(1) /\ UNCHANGED config
                ELSE /\ config' = validateEnvironment(env, p)
                     /\ IF Len(env.CHANGED_FILES.words) = 0
                           THEN Exit(0)
                           ELSE pc' = "fetch" /\ UNCHANGED exitCode
    /\ UNCHANGED <<argvHelp, env, idx, diffData, diffFailures, diffRequests,
                   templates, promptMode, responseText, verdict, gitCalls,
                   reviewPosts, commentPosts, otherVars>>

\* main, line 528: execSync(`git fetch origin ...`)
GitFetch ==
    /\ pc = "fetch"
    /\ gitCalls' = gitCalls + 1
    /\ \E ok \in BOOLEAN :
          IF ok THEN pc' = "diff" /\ UNCHANGED exitCode ELSE Exit(1)
    /\ UNCHANGED <<argvHelp, env, provider, config, idx, diffData,
                   diffFailures, diffRequests, templates, promptMode,
                   responseText, verdict, reviewPosts, commentPosts,
                   otherVars>>

(***************************************************************************)
(* File classification and content (lines 263-287)                         *)
(***************************************************************************)
\* getFileContent: null when the file is missing or unreadable
getFileContent(onDisk) ==
    IF onDisk \in {"ENOENT", "EACCES"} THEN Null ELSE onDisk

\* JavaScript truthiness of a string-or-null value
Truthy(x) == x # Null /\ x # ""

isModelFile(file) ==
    EndsWith(file, <<".model", ".ts">>) \/ EndsWith(file, <<".model", ".js">>)

isMigrationFile(file) ==
    /\ Includes(file, <<"/", "migrations", "/">>)
    /\ (EndsWith(file, <<".ts">>) \/ EndsWith(file, <<".js">>))

(***************************************************************************)
(* generateDiffContent (lines 292-357): one iteration of the loop          *)
(***************************************************************************)
\* mutant of FileType: the migration test placed before the model test
FileType_migrationFirst(file) ==
    IF isMigrationFile(file) THEN "migration"
    ELSE IF isModelFile(file) THEN "model"
    ELSE "other"

\* the type given to a file by the if / else-if chain of lines 314-334
FileType(file) ==
    IF isModelFile(file) THEN "model"
    ELSE IF isMigrationFile(file) THEN "migration"
    ELSE "other"

\* lines 306-336: git diff succeeded with text fileDiff
\* mutant of TryBranch: entries and paths are put at the front of their lists
TryBranch_unshift(dd, file, fileDiff, onDisk) ==
    LET type == FileType(file)
        fullContent == IF type \in {"model", "migration"} /\ Truthy(getFileContent(onDisk))
                         THEN getFileContent(onDisk)
                         ELSE Null
        fileInfo == [path |-> file, diff |-> fileDiff,
                     fullContent |-> fullContent, type |-> type]
    IN  [diffs |-> <<fileInfo>> \o dd.diffs,
         modelFiles |-> IF type = "model" THEN <<file>> \o dd.modelFiles
                        ELSE dd.modelFiles,
         migrationFiles |-> IF type = "migration" THEN <<file>> \o dd.migrationFiles
                            ELSE dd.migrationFiles,
         otherFiles |-> IF type = "other" THEN <<file>> \o dd.otherFiles
                        ELSE dd.otherFiles]

\* mutant of TryBranch: the file is read whatever its type
TryBranch_contentForAll(dd, file, fileDiff, onDisk) ==
    LET type == FileType(file)
        fullContent == IF Truthy(getFileContent(onDisk))
                         THEN getFileContent(onDisk)
                         ELSE Null
        fileInfo == [path |-> file, diff |-> fileDiff,
                     fullContent |-> fullContent, type |-> type]
    IN  [diffs |-> Append(dd.diffs, fileInfo),
         modelFiles |-> IF type = "model" THEN Append(dd.modelFiles, file)
                        ELSE dd.modelFiles,
         migrationFiles |-> IF type = "migration" THEN Append(dd.migrationFiles, file)
                            ELSE dd.migrationFiles,
         otherFiles |-> IF type = "other" THEN Append(dd.otherFiles, file)
                        ELSE dd.otherFiles]

TryBranch(dd, file, fileDiff, onDisk) ==
    LET type == FileType(file)
        fullContent == IF type \in {"model", "migration"} /\ Truthy(getFileContent(onDisk))
                         THEN getFileContent(onDisk)
                         ELSE Null
        fileInfo == [path |-> file, diff |-> fileDiff,
                     fullContent |-> fullContent, type |-> type]
    IN  [diffs |-> Append(dd.diffs, fileInfo),
         modelFiles |-> IF type = "model" THEN Append(dd.modelFiles, file)
                        ELSE dd.modelFiles,
         migrationFiles |-> IF type = "migration" THEN Append(dd.migrationFiles, file)
                            ELSE dd.migrationFiles,
         otherFiles |-> IF type = "other" THEN Append(dd.otherFiles, file)
                        ELSE dd.otherFiles]

\* lines 338-353: git diff threw
CatchBranch(dd, file, onDisk) ==
    IF (isModelFile(file) \/ isMigrationFile(file)) /\ Truthy(getFileContent(onDisk))
      THEN [dd EXCEPT !.diffs =
                Append(@, [path |-> file, diff |-> "",
                           fullContent |-> getFileContent(onDisk),
                           type |-> IF isModelFile(file) THEN "model" ELSE "migration"])]
      ELSE dd

\* the body of the for loop for one file
ProcessFile(dd, file, gitDiff, onDisk) ==
    IF gitDiff = GitFailed
      THEN CatchBranch(dd, file, onDisk)
      ELSE TryBranch(dd, file, gitDiff, onDisk)

\* one iteration: the git diff of the next file and its classification
\* mutant of GenerateDiffStep: a failed git diff is requested again
GenerateDiffStep_retry ==
    /\ pc = "diff"
    /\ idx < Len(config.changedFiles)
    /\ \E gitDiff \in DiffOutcomes, onDisk \in ContentOutcomes :
          /\ diffData' = ProcessFile(diffData, config.changedFiles[idx + 1], gitDiff, onDisk)
          /\ diffFailures' = IF gitDiff = GitFailed THEN diffFailures \cup {idx + 1}
                              ELSE diffFailures
          /\ idx' = IF gitDiff = GitFailed THEN idx ELSE idx + 1
    /\ diffRequests' = Append(diffRequests, config.changedFiles[idx + 1])
    /\ gitCalls' = gitCalls + 1
    /\ UNCHANGED <<argvHelp, env, pc, provider, config, templates,
                   promptMode, responseText, verdict, reviewPosts,
                   commentPosts, exitCode, otherVars>>

GenerateDiffStep ==
    /\ pc = "diff"
    /\ idx < Len(config.changedFiles)
    /\ \E gitDiff \in DiffOutcomes, onDisk \in ContentOutcomes :
          /\ diffData' = ProcessFile(diffData, config.changedFiles[idx + 1], gitDiff, onDisk)
          /\ diffFailures' = IF gitDiff = GitFailed THEN diffFailures \cup {idx + 1}
                              ELSE diffFailures
    /\ diffRequests' = Append(diffRequests, config.changedFiles[idx + 1])
    /\ idx' = idx + 1
    /\ gitCalls' = gitCalls + 1
    /\ UNCHANGED <<argvHelp, env, pc, provider, config, templates,
                   promptMode, responseText, verdict, reviewPosts,
                   commentPosts, exitCode, otherVars>>

\* line 356 and main, lines 531-536: the bundle is returned
GenerateDiffReturn ==
    /\ pc = "diff"
    /\ idx = Len(config.changedFiles)
    /\ IF Len(diffData.diffs) = 0
          THEN Exit(0)
          ELSE pc' = "prompts" /\ UNCHANGED exitCode
    /\ UNCHANGED <<argvHelp, env, provider, config, idx, diffData,
                   diffFailures, diffRequests, templates, promptMode,
                   responseText, verdict, gitCalls, reviewPosts,
                   commentPosts, otherVars>>

(***************************************************************************)
(* preparePrompts (lines 392-426)                                          *)
(***************************************************************************)
\* mutant of PromptBranch: || in place of && at line 397
PromptBranch_either(t) ==
    IF t.system \/ t.user THEN "modern"
    ELSE IF t.legacy THEN "legacy"
    ELSE "throw"

\* the branch taken for the template files that exist
PromptBranch(t) ==
    IF t.system /\ t.user THEN "modern"
    ELSE IF t.legacy THEN "legacy"
    ELSE "throw"

\* mutant of PreparePrompts: the run goes on to the review after the throw
PreparePrompts_continueAfterThrow ==
    /\ pc = "prompts"
    /\ \E t \in [system : BOOLEAN, user : BOOLEAN, legacy : BOOLEAN] :
          /\ templates' = t
          /\ promptMode' = PromptBranch(t)
    /\ pc' = "review"
    /\ UNCHANGED <<argvHelp, env, provider, config, idx, diffData,
                   diffFailures, diffRequests, responseText, verdict,
                   gitCalls, reviewPosts, commentPosts, exitCode, otherVars>>

PreparePrompts ==
    /\ pc = "prompts"
    /\ \E t \in [system : BOOLEAN, user : BOOLEAN, legacy : BOOLEAN] :
          /\ templates' = t
          /\ promptMode' = PromptBranch(t)
          /\ IF PromptBranch(t) = "throw"
                THEN Exit(1)
                ELSE pc' = "review" /\ UNCHANGED exitCode
    /\ UNCHANGED <<argvHelp, env, provider, config, idx, diffData,
                   diffFailures, diffRequests, responseText, verdict,
                   gitCalls, reviewPosts, commentPosts, otherVars>>

(***************************************************************************)
(* callAIProvider (lines 112-230)                                          *)
(***************************************************************************)
\* replies of the review endpoint: fetch rejects, a non-success status, or a
\* success status whose reply-text field is absent or holds a raw text
Replies ==
    {[kind |-> "network error", text |-> <<>>],
     [kind |-> "status 500", text |-> <<>>],
     [kind |-> "no text field", text |-> <<>>]}
        \cup {[kind |-> "ok", text |-> r] : r \in RawTexts}

\* the text has no character other than blanks
IsBlank(text) == \A i \in DOMAIN text : text[i] = " "

\* mutant of callThrows: ?.trim() left out, so a blank text counts as a reply
callThrows_noTrim(reply) ==
    \/ reply.kind # "ok"
    \/ reply.text = <<>>

\* mutant of callThrows: the response.ok and empty-text checks left out
callThrows_networkOnly(reply) == reply.kind = "network error"

\* the call throws: !response.ok, or !responseText after ?.trim()
callThrows(reply) ==
    \/ reply.kind # "ok"
    \/ Trim(reply.text) = <<>>

CallAIProvider ==
    /\ pc = "review"
    /\ \E reply \in Replies :
          /\ reviewPosts' = Append(reviewPosts,
                                   [endpoint |-> AI_PROVIDERS[provider].endpoint,
                                    auth |-> config.token,
                                    reply |-> reply.kind,
                                    blank |-> IsBlank(reply.text)])
          /\ IF callThrows(reply)
                THEN Exit(1) /\ UNCHANGED responseText
                ELSE /\ responseText' = Trim(reply.text)
                     /\ pc' = "result"
                     /\ UNCHANGED exitCode
    /\ UNCHANGED <<argvHelp, env, provider, config, idx, diffData,
                   diffFailures, diffRequests, templates, promptMode,
                   verdict, gitCalls, commentPosts, otherVars>>

(***************************************************************************)
(* Result handling (lines 554-564), postPrComment, postSuccessComment      *)
(***************************************************************************)
\* mutant of VerdictPasses: the exact comparison of the older scripts
VerdictPasses_exact(text) == text = <<"O", "K">>

\* line 557: responseText.includes('OK')
VerdictPasses(text) == Includes(text, <<"O", "K">>)

\* mutant of PostsSuccessComment: a truthiness test of the flag
PostsSuccessComment_truthy(e) == e.POST_SUCCESS_COMMENTS # ""

\* line 486
PostsSuccessComment(e) == e.POST_SUCCESS_COMMENTS = "true"

HandleResult ==
    /\ pc = "result"
    /\ IF ~VerdictPasses(responseText)
          THEN /\ verdict' = "fail"
               /\ pc' = "postPrComment"
               /\ UNCHANGED exitCode
          ELSE /\ verdict' = "pass"
               /\ IF PostsSuccessComment(env)
                     THEN pc' = "postSuccessComment" /\ UNCHANGED exitCode
                     ELSE Exit(0)
    /\ UNCHANGED <<argvHelp, env, provider, config, idx, diffData,
                   diffFailures, diffRequests, templates, promptMode,
                   responseText, gitCalls, reviewPosts, commentPosts,
                   otherVars>>

\* outcome of the POST to the issue-comments endpoint
\* mutant of CommentOutcomes: the request neither returns nor fails
CommentOutcomes_pending == {}

CommentOutcomes == {"ok", "status 403", "network error"}

\* mutant of PostPrComment: process.exit(1) of line 560 left out, main returns
PostPrComment_noExit ==
    /\ pc = "postPrComment"
    /\ \E outcome \in CommentOutcomes :
          commentPosts' = Append(commentPosts, [kind |-> "failure",
                                                auth |-> "GITHUB_TOKEN",
                                                outcome |-> outcome])
    /\ Exit(0)
    /\ UNCHANGED <<argvHelp, env, provider, config, idx, diffData,
                   diffFailures, diffRequests, templates, promptMode,
                   responseText, verdict, gitCalls, reviewPosts, otherVars>>

\* lines 446-466, then process.exit(1) at line 560
PostPrComment ==
    /\ pc = "postPrComment"
    /\ \E outcome \in CommentOutcomes :
          commentPosts' = Append(commentPosts, [kind |-> "failure",
                                                auth |-> "GITHUB_TOKEN",
                                                outcome |-> outcome])
    /\ Exit(1)
    /\ UNCHANGED <<argvHelp, env, provider, config, idx, diffData,
                   diffFailures, diffRequests, templates, promptMode,
                   responseText, verdict, gitCalls, reviewPosts, otherVars>>

\* lines 487-503, then main returns
PostSuccessComment ==
    /\ pc = "postSuccessComment"
    /\ \E outcome \in CommentOutcomes :
          commentPosts' = Append(commentPosts, [kind |-> "success",
                                                auth |-> "GITHUB_TOKEN",
                                                outcome |-> outcome])
    /\ Exit(0)
    /\ UNCHANGED <<argvHelp, env, provider, config, idx, diffData,
                   diffFailures, diffRequests, templates, promptMode,
                   responseText, verdict, gitCalls, reviewPosts, otherVars>>

Next ==
    \/ CliArguments
    \/ MainValidate
    \/ GitFetch
    \/ GenerateDiffStep
    \/ GenerateDiffReturn
    \/ PreparePrompts
    \/ CallAIProvider
    \/ HandleResult
    \/ PostPrComment
    \/ PostSuccessComment

Spec == Init /\ [][Next]_vars

(***************************************************************************)
(* generateDiffContent on its own: the call of line 531 for every list of  *)
(* 1..MaxFiles changed paths, after a successful validation and git fetch. *)
(***************************************************************************)
DiffEnv(files) ==
    [GITHUB_BASE_REF |-> TRUE, CHANGED_FILES |-> [set |-> TRUE, truthy |-> TRUE, words |-> files],
     GITHUB_REPOSITORY |-> TRUE, PR_NUMBER |-> TRUE, AI_PROVIDER |-> "",
     GITHUB_TOKEN |-> TRUE, GEMINI_API_KEY |-> FALSE, OPENAI_API_KEY |-> FALSE,
     POST_SUCCESS_COMMENTS |-> ""]

InitDiff ==
    /\ OtherIdle
    /\ argvHelp = FALSE
    /\ \E files \in SeqsUpTo(Paths, MaxFiles) \ {<<>>} :
          /\ env = DiffEnv(files)
          /\ config = validateEnvironment(DiffEnv(files), "github")
    /\ pc = "diff"
    /\ provider = "github"
    /\ idx = 0
    /\ diffData = EmptyDiffData
    /\ diffFailures = {}
    /\ diffRequests = <<>>
    /\ templates = NoTemplates
    /\ promptMode = "none"
    /\ responseText = <<>>
    /\ verdict = "none"
    /\ gitCalls = 1
    /\ reviewPosts = <<>>
    /\ commentPosts = <<>>
    /\ exitCode = -1

NextDiff ==
    \/ GenerateDiffStep
    \/ GenerateDiffReturn

SpecDiff == InitDiff /\ [][NextDiff]_vars

(***************************************************************************)
(* Vocabulary of the properties                                            *)
(***************************************************************************)
Range(seq) == {seq[i] : i \in DOMAIN seq}

\* the for loop of generateDiffContent has processed every changed file: the
\* bundle is the one the function returns
BundleComplete ==
    /\ Len(config.changedFiles) > 0
    /\ idx = Len(config.changedFiles)

\* the three path lists of the bundle, by type
PathList(dd, type) ==
    CASE type = "model" -> dd.modelFiles
      [] type = "migration" -> dd.migrationFiles
      [] type = "other" -> dd.otherFiles

FileTypes == {"model", "migration", "other"}

\* the name ends in .model.ts or .model.js
HasModelSuffix(file) ==
    /\ Len(file) >= 2
    /\ file[Len(file) - 1] = ".model"
    /\ file[Len(file)] \in {".ts", ".js"}

\* the name ends in .ts or .js
HasScriptSuffix(file) ==
    /\ Len(file) >= 1
    /\ file[Len(file)] \in {".ts", ".js"}

\* some directory segment of the path is named migrations
HasMigrationsSegment(file) ==
    \E i \in 1..(Len(file) - 1) :
        /\ file[i] = "migrations"
        /\ file[i + 1] = "/"
        /\ (i = 1 \/ file[i - 1] = "/")

\* the text has the characters O, K next to each other
ContainsOK(text) ==
    \E i \in 1..(Len(text) - 1) : text[i] = "O" /\ text[i + 1] = "K"

(***************************************************************************)
(* C1: in the returned bundle each input path is in exactly one of         *)
(* modelFiles, migrationFiles and otherFiles, and the three lists together *)
(* hold exactly the input paths, whatever diff retrievals failed.          *)
(* Refuted: a path whose git diff throws is pushed to none of the lists.   *)
(***************************************************************************)
C1_PathsPartitioned ==
    BundleComplete =>
        /\ \A f \in Range(config.changedFiles) :
              Cardinality({t \in FileTypes : f \in Range(PathList(diffData, t))}) = 1
        /\ UNION {Range(PathList(diffData, t)) : t \in FileTypes}
              = Range(config.changedFiles)

(***************************************************************************)
(* C6: a file whose diff retrieval failed has an entry with an empty diff  *)
(* in the returned bundle, whatever its category and whether or not it is  *)
(* still on disk.                                                          *)
(* Refuted: the catch block adds an entry only for a model or migration    *)
(* file whose content could be read.                                       *)
(***************************************************************************)
C6_FailedDiffHasEmptyEntry ==
    BundleComplete =>
        \A i \in diffFailures :
            \E k \in DOMAIN diffData.diffs :
                /\ diffData.diffs[k].path = config.changedFiles[i]
                /\ diffData.diffs[k].diff = ""

(***************************************************************************)
(* C7: every entry of diffs has its path in the path list of its type and  *)
(* in no other, and the number of entries of a type is the length of that  *)
(* type's list, also for entries created after a diff-retrieval failure.   *)
(* Refuted: the entry pushed by the catch block has its path in no list.   *)
(***************************************************************************)
C7_EntriesMatchLists ==
    /\ \A k \in DOMAIN diffData.diffs :
          \A t \in FileTypes :
              (diffData.diffs[k].path \in Range(PathList(diffData, t)))
                  <=> (t = diffData.diffs[k].type)
    /\ \A t \in FileTypes :
          Cardinality({k \in DOMAIN diffData.diffs : diffData.diffs[k].type = t})
              = Len(PathList(diffData, t))

(***************************************************************************)
(* C8: a path whose name ends in .model.ts or .model.js is classified      *)
(* model wherever it lies, also under a migrations directory: every entry  *)
(* of diffs with such a path has type model, and no such path is put in    *)
(* migrationFiles or otherFiles.                                           *)
(***************************************************************************)
C8_ModelSuffixIsModel ==
    /\ \A k \in DOMAIN diffData.diffs :
          HasModelSuffix(diffData.diffs[k].path) => diffData.diffs[k].type = "model"
    /\ \A f \in Range(diffData.migrationFiles) \cup Range(diffData.otherFiles) :
          ~HasModelSuffix(f)

\* a model file under a migrations directory has been classified model
C8_Witness ==
    /\ BundleComplete
    /\ ModelInMigrations \in Range(diffData.modelFiles)
    /\ \E k \in DOMAIN diffData.diffs :
          /\ diffData.diffs[k].path = ModelInMigrations
          /\ diffData.diffs[k].type = "model"

(***************************************************************************)
(* C9: a path (not a model file) with a directory segment named migrations *)
(* at any depth, the first segment included, that ends in .ts or .js is    *)
(* classified migration; a path matched by neither rule is classified      *)
(* other.                                                                  *)
(* Refuted: isMigrationFile looks for "/migrations/", which a path that    *)
(* starts with migrations/ does not contain.                               *)
(***************************************************************************)
C9_MigrationsSegmentIsMigration ==
    \A k \in DOMAIN diffData.diffs :
        LET f == diffData.diffs[k].path
            t == diffData.diffs[k].type
        IN  /\ (HasMigrationsSegment(f) /\ HasScriptSuffix(f) /\ ~HasModelSuffix(f))
                  => t = "migration"
            /\ (~HasModelSuffix(f) /\ ~(HasMigrationsSegment(f) /\ HasScriptSuffix(f)))
                  => t = "other"

(***************************************************************************)
(* C2: the verdict passes if and only if the response text contains "OK":  *)
(* a run that got a response text ends with exit code 0 and no failure     *)
(* comment when the text contains "OK", and with exit code 1 otherwise.    *)
(***************************************************************************)
C2_PassIffContainsOK ==
    /\ verdict # "none" => (verdict = "pass" <=> ContainsOK(responseText))
    /\ (pc = "done" /\ responseText # <<>>) =>
          IF ContainsOK(responseText)
            THEN /\ exitCode = 0
                 /\ \A i \in DOMAIN commentPosts : commentPosts[i].kind # "failure"
            ELSE exitCode = 1

\* the response text exactly "OK" has passed
C2_Witness ==
    /\ pc = "done"
    /\ responseText = <<"O", "K">>
    /\ verdict = "pass"
    /\ exitCode = 0

(***************************************************************************)
(* C3: when the verdict fails the run posts exactly one comment (the       *)
(* failure comment) and then ends with exit code 1, whatever the outcome   *)
(* of the POST.                                                            *)
(***************************************************************************)
C3_FailPostsOnceThenExitsOne ==
    verdict = "fail" =>
        /\ pc \in {"postPrComment", "done"}
        /\ pc = "postPrComment" => (commentPosts = <<>> /\ exitCode = -1)
        /\ pc = "done" =>
              /\ Len(commentPosts) = 1
              /\ commentPosts[1].kind = "failure"
              /\ exitCode = 1

\* a failing verdict whose comment POST threw
C3_Witness ==
    /\ verdict = "fail"
    /\ pc = "done"
    /\ Len(commentPosts) = 1
    /\ commentPosts[1].outcome = "network error"
    /\ exitCode = 1

(***************************************************************************)
(* C4: when the verdict passes the run ends with exit code 0 whatever the  *)
(* outcome of a comment POST, and the comment endpoint is called if and    *)
(* only if POST_SUCCESS_COMMENTS is "true" (never when it is unset).       *)
(***************************************************************************)
C4_PassExitsZero ==
    verdict = "pass" =>
        /\ pc \in {"postSuccessComment", "done"}
        /\ pc = "postSuccessComment" =>
              (env.POST_SUCCESS_COMMENTS = "true" /\ commentPosts = <<>>)
        /\ pc = "done" =>
              /\ exitCode = 0
              /\ Len(commentPosts) = (IF env.POST_SUCCESS_COMMENTS = "true" THEN 1 ELSE 0)
        /\ env.POST_SUCCESS_COMMENTS = "" => commentPosts = <<>>

\* a passing verdict whose success comment was refused
C4_Witness ==
    /\ verdict = "pass"
    /\ pc = "done"
    /\ env.POST_SUCCESS_COMMENTS = "true"
    /\ Len(commentPosts) = 1
    /\ commentPosts[1].outcome = "status 403"
    /\ exitCode = 0

(***************************************************************************)
(* C5: when the review endpoint does not answer with a usable reply (in    *)
(* particular a non-success status) the run ends with exit code 1 and no   *)
(* comment is posted; a comment is posted only after the single review     *)
(* call returned a non-empty verdict text.                                 *)
(***************************************************************************)
C5_ReviewFailureIsFatal ==
    /\ \A i \in DOMAIN reviewPosts :
          reviewPosts[i].reply # "ok" =>
              (pc = "done" /\ exitCode = 1 /\ commentPosts = <<>>)
    /\ commentPosts # <<>> =>
          /\ Len(reviewPosts) = 1
          /\ reviewPosts[1].reply = "ok"
          /\ responseText # <<>>

\* the Gemini endpoint answered with a non-success status
C5_Witness ==
    /\ provider = "gemini"
    /\ Len(reviewPosts) = 1
    /\ reviewPosts[1].reply = "status 500"
    /\ pc = "done"
    /\ exitCode = 1
    /\ commentPosts = <<>>

(***************************************************************************)
(* C10: preparePrompts uses the legacy template whenever it exists and the *)
(* modern pair is incomplete, and the run goes on to the review call; it   *)
(* throws, ending the run with exit code 1 and no review call, exactly     *)
(* when neither the complete modern pair nor the legacy template exists.   *)
(***************************************************************************)
C10_LegacyFallback ==
    promptMode # "none" =>
        /\ (templates.legacy /\ ~(templates.system /\ templates.user)) =>
              /\ promptMode = "legacy"
              /\ pc # "prompts"
              /\ pc = "done" => reviewPosts # <<>>
        /\ promptMode = "throw" <=>
              (~(templates.system /\ templates.user) /\ ~templates.legacy)
        /\ promptMode = "throw" =>
              (pc = "done" /\ exitCode = 1 /\ reviewPosts = <<>>)

\* the legacy template was used with only the system template of the pair
C10_Witness ==
    /\ promptMode = "legacy"
    /\ templates.system
    /\ ~templates.user
    /\ templates.legacy
    /\ reviewPosts # <<>>

(***************************************************************************)
(* Vocabulary of the run properties                                        *)
(***************************************************************************)
\* the run is over
Terminated == pc = "done"

\* the environment has every setting but CHANGED_FILES that validation and
\* provider selection ask for
ConfigValidButFiles ==
    /\ env.GITHUB_BASE_REF
    /\ env.GITHUB_REPOSITORY
    /\ env.PR_NUMBER
    /\ env.AI_PROVIDER \in {""} \cup ProviderKeys
    /\ CASE env.AI_PROVIDER \in {"", "github"} -> env.GITHUB_TOKEN
          [] env.AI_PROVIDER = "gemini" -> env.GEMINI_API_KEY
          [] env.AI_PROVIDER = "openai" -> env.OPENAI_API_KEY
          [] OTHER -> FALSE

\* nothing to check: CHANGED_FILES is set and lists no file, or the bundle
\* came back without any diff entry
NothingToCheck ==
    /\ ConfigValidButFiles
    /\ env.CHANGED_FILES.set
    /\ \/ env.CHANGED_FILES.words = <<>>
       \/ BundleComplete /\ diffData.diffs = <<>>

(***************************************************************************)
(* C11: a terminated run (not --help) has exit code 0 or 1, and it is 0    *)
(* exactly when the verdict passed or there was nothing to check; an empty *)
(* CHANGED_FILES gives exit code 0.                                        *)
(* Refuted: validateEnvironment rejects CHANGED_FILES set to the empty     *)
(* string as a missing variable, so the "No changed files to process"      *)
(* return of lines 521-524 is reached only for a string of blanks.         *)
(***************************************************************************)
C11_ExitZeroIffPassOrNothingToCheck ==
    (Terminated /\ ~argvHelp) =>
        /\ exitCode \in {0, 1}
        /\ exitCode = 0 <=> (verdict = "pass" \/ NothingToCheck)

\* no git command has run and no HTTP request has been sent
NoExternalCall ==
    /\ gitCalls = 0
    /\ diffRequests = <<>>
    /\ reviewPosts = <<>>
    /\ commentPosts = <<>>

(***************************************************************************)
(* C12: when GITHUB_BASE_REF, CHANGED_FILES, GITHUB_REPOSITORY, PR_NUMBER  *)
(* or GITHUB_TOKEN is missing, the run makes no git or HTTP call and ends  *)
(* with exit code 1, whichever provider is selected.                       *)
(* Refuted: GITHUB_TOKEN is checked only when the provider is github,      *)
(* though the usage text lists it as required and every PR comment is      *)
(* authorised with it.                                                     *)
(***************************************************************************)
C12_MissingRequiredIsFatal ==
    (/\ ~argvHelp
     /\ \/ ~env.GITHUB_BASE_REF
        \/ ~env.CHANGED_FILES.set
        \/ ~env.GITHUB_REPOSITORY
        \/ ~env.PR_NUMBER
        \/ ~env.GITHUB_TOKEN)
        => /\ NoExternalCall
           /\ Terminated => exitCode = 1

(***************************************************************************)
(* C13: when AI_PROVIDER names an unsupported provider, or the credential  *)
(* variable of the selected provider is missing, the run ends with exit    *)
(* code 1 without a git command, a review call or a comment.               *)
(***************************************************************************)
C13_BadProviderOrCredentialIsFatal ==
    (/\ ~argvHelp
     /\ \/ env.AI_PROVIDER \notin {""} \cup ProviderKeys
        \/ env.AI_PROVIDER \in {"", "github"} /\ ~env.GITHUB_TOKEN
        \/ env.AI_PROVIDER = "gemini" /\ ~env.GEMINI_API_KEY
        \/ env.AI_PROVIDER = "openai" /\ ~env.OPENAI_API_KEY)
        => /\ NoExternalCall
           /\ pc \in {"cli", "main", "done"}
           /\ Terminated => exitCode = 1

\* the OpenAI provider was selected without OPENAI_API_KEY, everything else
\* being set, and the run has ended
C13_Witness ==
    /\ ~argvHelp
    /\ env.AI_PROVIDER = "openai"
    /\ ~env.OPENAI_API_KEY
    /\ env.GITHUB_TOKEN
    /\ ~MissingRequired(env)
    /\ env.CHANGED_FILES.words # <<>>
    /\ Terminated
    /\ exitCode = 1

(***************************************************************************)
(* C14: when the review endpoint answers with a success status but the     *)
(* reply-text field is absent, empty or blank, the call fails: no verdict  *)
(* is evaluated, no comment is posted and the run ends with exit code 1.   *)
(***************************************************************************)
C14_BlankReplyIsFatal ==
    \A i \in DOMAIN reviewPosts :
        (\/ reviewPosts[i].reply = "no text field"
         \/ reviewPosts[i].reply = "ok" /\ reviewPosts[i].blank)
            => /\ Terminated
               /\ exitCode = 1
               /\ verdict = "none"
               /\ responseText = <<>>
               /\ commentPosts = <<>>

\* Gemini answered 200 with a reply text that trims to nothing
C14_Witness ==
    /\ provider = "gemini"
    /\ Len(reviewPosts) = 1
    /\ reviewPosts[1].reply = "ok"
    /\ reviewPosts[1].blank
    /\ Terminated
    /\ exitCode = 1

\* the stage a position of the run belongs to: 0 before Classifying,
\* 1 Classifying, 2 Assembling, 3 Reviewing, 4 Reporting, 5 terminal
StageOf(p) ==
    CASE p \in {"cli", "main"} -> 0
      [] p \in {"fetch", "diff"} -> 1
      [] p = "prompts" -> 2
      [] p = "review" -> 3
      [] p \in {"result", "postPrComment", "postSuccessComment"} -> 4
      [] p = "done" -> 5

\* the step ends the run
Terminates == pc # "done" /\ pc' = "done"

(***************************************************************************)
(* C15 as stated: a run that is not a usage request ends only from         *)
(* Reporting or with a non-zero exit code.                                 *)
(* Refuted: a blank list of changed files ends the run before Classifying, *)
(* and a list that yields no diff entry ends it from Classifying, both     *)
(* with exit code 0.                                                       *)
(***************************************************************************)
C15_EndsFromReportingOrFails ==
    [][(Terminates /\ ~argvHelp) => (StageOf(pc) = 4 \/ exitCode' # 0)]_vars

(***************************************************************************)
(* C15 amended: the stages are entered in the order Classifying,           *)
(* Assembling, Reviewing, Reporting, none skipped and none entered again;  *)
(* all diffs are retrieved before the review call and the review call has  *)
(* returned a text before a comment is posted; the run ends from Reporting,*)
(* or with exit code 0 because there is nothing to check, or with exit     *)
(* code 1; and a failed stage ends the run at once with exit code 1.       *)
(***************************************************************************)
C15_StagesInOrder ==
    [][/\ StageOf(pc') \in {StageOf(pc), StageOf(pc) + 1, 5}
       /\ reviewPosts' # <<>> => idx' = Len(config'.changedFiles)
       /\ commentPosts' # <<>> => Len(reviewPosts') = 1 /\ responseText' # <<>>
       /\ (Terminates /\ ~argvHelp) =>
              \/ StageOf(pc) = 4
              \/ exitCode' = 0 /\ NothingToCheck'
              \/ exitCode' = 1
       /\ (\/ promptMode' = "throw"
           \/ /\ Len(reviewPosts') > Len(reviewPosts)
              /\ reviewPosts'[Len(reviewPosts')].reply # "ok")
              => pc' = "done" /\ exitCode' = 1]_vars

\* the run ended from Classifying with exit code 0: every diff was requested
\* and none produced an entry
C15_Witness ==
    /\ Terminated
    /\ exitCode = 0
    /\ BundleComplete
    /\ diffData.diffs = <<>>
    /\ gitCalls > 1
    /\ promptMode = "none"
    /\ reviewPosts = <<>>

(***************************************************************************)
(* C16: no external call is retried: the review endpoint receives at most  *)
(* one POST, the comment endpoint at most one POST, and the diff of each   *)
(* listed file is requested exactly once, in the order of the list.        *)
(***************************************************************************)
C16_NoRetry ==
    /\ Len(reviewPosts) <= 1
    /\ Len(commentPosts) <= 1
    /\ Len(diffRequests) = idx
    /\ diffRequests = SubSeq(config.changedFiles, 1, idx)
    /\ pc \in {"prompts", "review", "result", "postPrComment", "postSuccessComment"}
          => diffRequests = config.changedFiles

\* a run in which a diff failed, the review call failed and nothing was
\* tried again
C16_Witness ==
    /\ Terminated
    /\ diffFailures # {}
    /\ diffRequests = config.changedFiles
    /\ Len(reviewPosts) = 1
    /\ reviewPosts[1].reply = "status 500"
    /\ exitCode = 1

\* s is t with some elements left out, the others in their order
RECURSIVE IsSubSeq(_, _)
IsSubSeq(s, t) ==
    IF s = <<>> THEN TRUE
    ELSE IF t = <<>> THEN FALSE
    ELSE IF Head(s) = Head(t) THEN IsSubSeq(Tail(s), Tail(t))
    ELSE IsSubSeq(s, Tail(t))

(***************************************************************************)
(* C17: the entries of diffs, and the paths of modelFiles, migrationFiles  *)
(* and otherFiles, are in the relative order of the list of changed paths, *)
(* also when some git diff commands fail.                                  *)
(***************************************************************************)
C17_InputOrderKept ==
    LET seen == SubSeq(config.changedFiles, 1, idx)
        entryPaths == [i \in DOMAIN diffData.diffs |-> diffData.diffs[i].path]
    IN  /\ IsSubSeq(entryPaths, seen)
        /\ \A t \in FileTypes : IsSubSeq(PathList(diffData, t), seen)

\* two different paths, the first one's diff failed, both have an entry
C17_Witness ==
    /\ BundleComplete
    /\ 1 \in diffFailures
    /\ Len(diffData.diffs) = 2
    /\ diffData.diffs[1].path # diffData.diffs[2].path
    /\ diffData.diffs[1].path = config.changedFiles[1]

(***************************************************************************)
(* C18: an entry carries the full file content only if its type is model   *)
(* or migration; a model or migration file that cannot be read gets an     *)
(* entry without content, the run does not fail and the files after it are *)
(* still processed.                                                        *)
(***************************************************************************)
C18_ContentOnlyForModelOrMigration ==
    /\ \A i \in DOMAIN diffData.diffs :
          /\ diffData.diffs[i].fullContent # Null
                => diffData.diffs[i].type \in {"model", "migration"}
          /\ diffData.diffs[i].fullContent \in {Null, "file text"}
    /\ Len(diffData.diffs) >= idx - Cardinality(diffFailures)
    /\ exitCode # 1
    /\ Terminated => BundleComplete

\* a model file whose diff succeeded could not be read, and the file after
\* it has its entry
C18_Witness ==
    /\ BundleComplete
    /\ diffFailures = {}
    /\ Len(diffData.diffs) = 2
    /\ diffData.diffs[1].type = "model"
    /\ diffData.diffs[1].fullContent = Null
    /\ diffData.diffs[2].type = "other"
    /\ exitCode = -1

\* the host AI_PROVIDER stands for, read off the AI_PROVIDERS table
ExpectedEndpoint(setting) ==
    CASE setting \in {"", "github"} -> "models.github.ai"
      [] setting = "gemini" -> "generativelanguage.googleapis.com"
      [] setting = "openai" -> "api.openai.com"
      [] OTHER -> "none"

(***************************************************************************)
(* C19: with AI_PROVIDER unset the github provider is used; the one review *)
(* POST of a run goes to the endpoint of the selected provider, and no     *)
(* other endpoint is contacted, also after the call has failed.            *)
(***************************************************************************)
C19_OnlySelectedEndpoint ==
    /\ \A i \in DOMAIN reviewPosts :
          reviewPosts[i].endpoint = ExpectedEndpoint(env.AI_PROVIDER)
    /\ (Terminated /\ reviewPosts # <<>>) => Len(reviewPosts) = 1
    /\ (env.AI_PROVIDER = "" /\ pc \notin {"cli", "main"} /\ ~argvHelp)
          => provider = "github"

\* AI_PROVIDER was unset, the call went to GitHub Models and failed, and the
\* run has ended
C19_Witness ==
    /\ env.AI_PROVIDER = ""
    /\ Terminated
    /\ Len(reviewPosts) = 1
    /\ reviewPosts[1].endpoint = "models.github.ai"
    /\ reviewPosts[1].reply = "network error"

(***************************************************************************)
(* C20: with --help or -h on the command line the script prints the usage  *)
(* and exits with code 0 without validating the environment, running a git *)
(* command or sending an HTTP request, whatever the environment is.        *)
(***************************************************************************)
C20_HelpOnlyPrintsUsage ==
    argvHelp =>
        /\ pc \in {"cli", "done"}
        /\ Terminated => exitCode = 0
        /\ provider = ""
        /\ config = NoConfig
        /\ NoExternalCall

\* usage was asked for with an environment that validation would reject
C20_Witness ==
    /\ argvHelp
    /\ ~env.GITHUB_BASE_REF
    /\ env.AI_PROVIDER = "claude"
    /\ Terminated
    /\ exitCode = 0

(***************************************************************************)
(* Prompt texts: formatDiffDataForAI (lines 362-387) and preparePrompts    *)
(* (lines 392-426) as functions on text.  Here a text is a sequence of     *)
(* tokens, a missing file content (null) is the empty text, which line 381 *)
(* treats alike, and the bundle's diff and fullContent are such texts.     *)
(***************************************************************************)
DiffDataToken == "__DIFF_DATA__"
DiffsPlaceholderToken == "__DIFFS_PLACEHOLDER__"

\* position of the first occurrence of sub in s, 0 if there is none
\* (String.prototype.indexOf + 1)
IndexOf(s, sub) ==
    LET hits == {i \in 1..(Len(s) - Len(sub) + 1) :
                    SubSeq(s, i, i + Len(sub) - 1) = sub}
    IN  IF hits = {} THEN 0 ELSE CHOOSE i \in hits : \A j \in hits : i <= j

\* the replacement string of String.prototype.replace with its special
\* patterns expanded: $$ is a dollar sign, $& the matched text, dollar-backtick
\* the text before the match, dollar-quote the text after it
RECURSIVE GetSubstitution(_, _, _, _)
GetSubstitution(replacement, matched, before, after) ==
    IF replacement = <<>> THEN <<>>
    ELSE LET t == Head(replacement)
             out == CASE t = "$$" -> <<"$">>
                      [] t = "$&" -> matched
                      [] t = "$(backtick)" -> before
                      [] t = "$'" -> after
                      [] OTHER -> <<t>>
         IN  out \o GetSubstitution(Tail(replacement), matched, before, after)

\* s.replace(pattern, replacement) with a string pattern: the first
\* occurrence only
Replace(s, pattern, replacement) ==
    LET i == IndexOf(s, pattern)
        before == SubSeq(s, 1, i - 1)
        after == SubSeq(s, i + Len(pattern), Len(s))
    IN  IF i = 0 THEN s
        ELSE before \o GetSubstitution(replacement, pattern, before, after)
                \o after

\* s.split(marker)[0]
SplitFirst(s, marker) ==
    LET i == IndexOf(s, marker)
    IN  IF i = 0 THEN s ELSE SubSeq(s, 1, i - 1)

\* list.join(', ')
RECURSIVE Join(_)
Join(list) ==
    IF list = <<>> THEN <<>>
    ELSE IF Len(list) = 1 THEN list[1]
    ELSE list[1] \o <<", ">> \o Join(Tail(list))

\* `${n}` for a list length
CountText(n) == <<"0", "1", "2", "3", "4", "5", "6", "7", "8", "9">>[n + 1]

\* one iteration of the loop of lines 374-384
FormatFileInfo(fileInfo) ==
    <<"### File: ">> \o fileInfo.path \o <<" (Type: ", fileInfo.type, ")">>
        \o (IF fileInfo.diff # <<>>
               THEN <<"#### Git Diff:">> \o fileInfo.diff \o <<"(end of block)">>
               ELSE <<>>)
        \o (IF fileInfo.fullContent # <<>>
               THEN <<"#### Complete File Content (for context):">>
                        \o fileInfo.fullContent \o <<"(end of block)">>
               ELSE <<>>)

RECURSIVE FormatDiffs(_)
FormatDiffs(diffs) ==
    IF diffs = <<>> THEN <<>>
    ELSE FormatFileInfo(Head(diffs)) \o FormatDiffs(Tail(diffs))

formatDiffDataForAI(dd) ==
    LET orNone(text) == IF text = <<>> THEN <<"none">> ELSE text
    IN  <<"## Change Summary">>
            \o <<"- Model files changed: ", CountText(Len(dd.modelFiles)), " (">>
            \o orNone(Join(dd.modelFiles)) \o <<")">>
            \o <<"- Migration files changed: ",
                 CountText(Len(dd.migrationFiles)), " (">>
            \o orNone(Join(dd.migrationFiles)) \o <<")">>
            \o <<"- Other files changed: ", CountText(Len(dd.otherFiles))>>
            \o <<"## Detailed Changes">>
            \o FormatDiffs(dd.diffs)

\* preparePrompts throws: neither the template pair nor the legacy template
\* exists (lines 397, 409)
preparePromptsThrows(files) ==
    /\ ~(files.system.exists /\ files.user.exists)
    /\ ~files.legacy.exists

\* preparePrompts: the returned prompts when it does not throw
preparePrompts(files, dd) ==
    IF files.system.exists /\ files.user.exists
      THEN [systemPrompt |-> files.system.text,
            userPrompt |-> Replace(files.user.text, <<DiffDataToken>>,
                                   formatDiffDataForAI(dd))]
      ELSE [systemPrompt |-> SplitFirst(files.legacy.text,
                                        <<DiffsPlaceholderToken>>),
            userPrompt |-> <<"Please analyze the following code changes:">>
                              \o formatDiffDataForAI(dd)]

\* template files as they may be found on disk
FileTexts(tokens) ==
    {Absent} \cup {[exists |-> TRUE, text |-> t] :
                      t \in SeqsUpTo(tokens, MaxTemplateLen)}

PromptFileSets ==
    [system : {Absent, [exists |-> TRUE, text |-> <<"You review models.">>]},
     user : FileTexts({"Review:", DiffDataToken}),
     legacy : FileTexts({"Rules.", DiffsPlaceholderToken})]

\* diff texts: plain lines, the dollar patterns of a JavaScript or shell
\* source, and the placeholder itself (a change of the prompt template)
PromptDiffTexts ==
    SeqsUpTo({"+ line", "$$", "$&", DiffDataToken}, MaxDiffLen) \ {<<>>}

\* bundles of one changed file with a non-empty diff
PromptBundles ==
    {[diffs |-> <<[path |-> Readme, diff |-> d, fullContent |-> <<>>,
                   type |-> "other"]>>,
      modelFiles |-> <<>>, migrationFiles |-> <<>>, otherFiles |-> <<Readme>>]
        : d \in PromptDiffTexts}
    \cup
    {[diffs |-> <<[path |-> AgentModel, diff |-> d,
                   fullContent |-> <<"export class Agent">>, type |-> "model"]>>,
      modelFiles |-> <<AgentModel>>, migrationFiles |-> <<>>,
      otherFiles |-> <<>>]
        : d \in PromptDiffTexts}

\* the run is about to call preparePrompts with some bundle and some files
InitPrompt ==
    /\ argvHelp = FALSE
    /\ env = DiffEnv(<<Readme>>)
    /\ config = validateEnvironment(DiffEnv(<<Readme>>), "github")
    /\ pc = "prompts"
    /\ provider = "github"
    /\ idx = 1
    /\ diffData \in PromptBundles
    /\ diffFailures = {}
    /\ diffRequests = <<Readme>>
    /\ templates = NoTemplates
    /\ promptMode = "none"
    /\ responseText = <<>>
    /\ verdict = "none"
    /\ gitCalls = 2
    /\ reviewPosts = <<>>
    /\ commentPosts = <<>>
    /\ exitCode = -1
    /\ promptFiles \in PromptFileSets
    /\ prompts = NoPrompts
    /\ VerdictIdle
    /\ GeminiIdle
    /\ MigrationIdle
    /\ PortIdle

\* preparePrompts with the texts it reads and returns (lines 392-426, and
\* lines 538-540, 566-570 of main)
PreparePromptsText ==
    /\ pc = "prompts"
    /\ LET t == [system |-> promptFiles.system.exists,
                 user |-> promptFiles.user.exists,
                 legacy |-> promptFiles.legacy.exists]
       IN  /\ templates' = t
           /\ promptMode' = PromptBranch(t)
           /\ IF preparePromptsThrows(promptFiles)
                 THEN Exit(1) /\ UNCHANGED prompts
                 ELSE /\ prompts' = preparePrompts(promptFiles, diffData)
                      /\ pc' = "review"
                      /\ UNCHANGED exitCode
    /\ UNCHANGED <<argvHelp, env, provider, config, idx, diffData,
                   diffFailures, diffRequests, responseText, verdict,
                   gitCalls, reviewPosts, commentPosts, promptFiles,
                   verdictVars, geminiVars, migrationVars, portVars>>

NextPrompt == PreparePromptsText

SpecPrompt == InitPrompt /\ [][NextPrompt]_vars

(***************************************************************************)
(* C21: with the modern template pair the system prompt is the system      *)
(* template unchanged, and the user prompt contains the rendered summary   *)
(* verbatim and no placeholder token __DIFF_DATA__, for every template and *)
(* every diff text.                                                        *)
(* Refuted for templates that do have the placeholder: replace() expands   *)
(* the dollar patterns of the summary, replaces the first placeholder      *)
(* only, and a summary that quotes the placeholder puts it back.           *)
(***************************************************************************)
C21_SummaryVerbatim ==
    (/\ promptMode = "modern"
     /\ Includes(promptFiles.user.text, <<DiffDataToken>>)) =>
        /\ prompts.systemPrompt = promptFiles.system.text
        /\ Includes(prompts.userPrompt, formatDiffDataForAI(diffData))
        /\ ~Includes(prompts.userPrompt, <<DiffDataToken>>)

\* text of the legacy template after its first marker, empty without marker
AfterMarker(text) ==
    LET i == IndexOf(text, <<DiffsPlaceholderToken>>)
    IN  IF i = 0 THEN <<>> ELSE SubSeq(text, i + 1, Len(text))

(***************************************************************************)
(* C22: in the legacy fallback the system prompt is the template text      *)
(* before the marker __DIFFS_PLACEHOLDER__, and the user prompt carries    *)
(* the rendered summary and the template text after the marker.            *)
(* Refuted: the text after the marker is dropped.                          *)
(***************************************************************************)
C22_LegacyTemplateKept ==
    promptMode = "legacy" =>
        /\ prompts.systemPrompt
              = SplitFirst(promptFiles.legacy.text, <<DiffsPlaceholderToken>>)
        /\ Includes(prompts.userPrompt, formatDiffDataForAI(diffData))
        /\ Includes(prompts.userPrompt, AfterMarker(promptFiles.legacy.text))

\* every listed file was asked for and none has a non-empty diff
NoMeaningfulDiff ==
    /\ BundleComplete
    /\ \A i \in DOMAIN diffData.diffs : diffData.diffs[i].diff = ""

(***************************************************************************)
(* C23: when no changed file has a non-empty diff the run skips the        *)
(* analysis: no POST to the review endpoint, none to the comment endpoint, *)
(* and exit code 0.                                                        *)
(* Refuted: a file whose diff is empty still gets an entry, and the run    *)
(* stops only when there is no entry.                                      *)
(***************************************************************************)
C23_NoDiffSkipsAnalysis ==
    (~argvHelp /\ NoMeaningfulDiff) =>
        /\ reviewPosts = <<>>
        /\ commentPosts = <<>>
        /\ pc \in {"diff", "done"}
        /\ Terminated => exitCode = 0

(***************************************************************************)
(* Verdict policies: the test of the reply text in the current script      *)
(* (line 557), in the legacy script (line 942) and in the older port       *)
(* (unnamed/part_000 line 110), applied to one and the same text.          *)
(***************************************************************************)
OkButCheckNaming ==
    <<"O", "K", ",", " ", "b", "u", "t", " ", "c", "h", "e", "c", "k", " ",
      "n", "a", "m", "i", "n", "g">>

\* reply texts as the scripts hold them after ?.trim()
VerdictTexts ==
    ({Trim(t) : t \in SeqsUpTo(RespChars \cup {","}, MaxRespLen)} \ {<<>>})
        \cup {OkButCheckNaming}

\* mutant of LegacyVerdictPasses: any text that starts with OK passes
LegacyVerdictPasses_prefix(text) ==
    Len(text) >= 2 /\ SubSeq(text, 1, 2) = <<"O", "K">>

\* legacy script, line 942: responseText !== "OK" fails
LegacyVerdictPasses(text) == text = <<"O", "K">>

\* older port, line 110: responseText !== "OK" fails
PortVerdictPasses(text) == text = <<"O", "K">>

\* the review call has returned some text and main is about to test it
InitVerdict ==
    /\ argvHelp = FALSE
    /\ env = DiffEnv(<<Readme>>)
    /\ config = validateEnvironment(DiffEnv(<<Readme>>), "github")
    /\ pc = "result"
    /\ provider = "github"
    /\ idx = 1
    /\ diffData = TryBranch(EmptyDiffData, Readme, "@@ -1 +1 @@", "file text")
    /\ diffFailures = {}
    /\ diffRequests = <<Readme>>
    /\ templates = [system |-> TRUE, user |-> TRUE, legacy |-> FALSE]
    /\ promptMode = "modern"
    /\ responseText \in VerdictTexts
    /\ verdict = "none"
    /\ gitCalls = 2
    /\ reviewPosts = <<[endpoint |-> AI_PROVIDERS["github"].endpoint,
                        auth |-> config.token, reply |-> "ok",
                        blank |-> FALSE]>>
    /\ commentPosts = <<>>
    /\ exitCode = -1
    /\ PromptIdle
    /\ VerdictIdle
    /\ GeminiIdle
    /\ MigrationIdle
    /\ PortIdle

\* result handling of the legacy script (lines 942-954)
LegacyHandleResult ==
    /\ verdicts.legacy = "none"
    /\ verdicts' = [verdicts EXCEPT !.legacy =
                        IF LegacyVerdictPasses(responseText) THEN "pass"
                        ELSE "fail"]
    /\ UNCHANGED <<runVars, promptVars, geminiVars, migrationVars,
                   portVars>>

\* result handling of the older port (part_000 lines 110-115)
PortHandleResult ==
    /\ verdicts.port = "none"
    /\ verdicts' = [verdicts EXCEPT !.port =
                        IF PortVerdictPasses(responseText) THEN "pass"
                        ELSE "fail"]
    /\ UNCHANGED <<runVars, promptVars, geminiVars, migrationVars,
                   portVars>>

NextVerdict ==
    \/ HandleResult
    \/ LegacyHandleResult
    \/ PortHandleResult

SpecVerdict == InitVerdict /\ [][NextVerdict]_vars

\* the three scripts have judged the text
AllJudged ==
    /\ verdict # "none"
    /\ verdicts.legacy # "none"
    /\ verdicts.port # "none"

(***************************************************************************)
(* C24: a text that passes under the exact-equality policy of the older    *)
(* scripts passes under the substring policy of the current script; the    *)
(* policies agree on the text OK; on "OK, but check naming" the substring  *)
(* policy passes and the exact-equality policy fails.                      *)
(***************************************************************************)
C24_PoliciesOrdered ==
    AllJudged =>
        /\ verdicts.legacy = "pass" => verdict = "pass"
        /\ verdicts.port = "pass" => verdict = "pass"
        /\ responseText = <<"O", "K">> =>
              verdict = "pass" /\ verdicts.legacy = "pass" /\ verdicts.port = "pass"
        /\ responseText = OkButCheckNaming =>
              verdict = "pass" /\ verdicts.legacy = "fail" /\ verdicts.port = "fail"

\* the three scripts have judged "OK, but check naming" and disagree
C24_Witness ==
    /\ AllJudged
    /\ responseText = OkButCheckNaming
    /\ verdict = "pass"
    /\ verdicts.legacy = "fail"

\* the environment variable whose value a service is meant to receive
CredentialOf(host) ==
    CASE host = "models.github.ai" -> "GITHUB_TOKEN"
      [] host = "generativelanguage.googleapis.com" -> "GEMINI_API_KEY"
      [] host = "api.openai.com" -> "OPENAI_API_KEY"
      [] host = "api.github.com" -> "GITHUB_TOKEN"

(***************************************************************************)
(* C25: every POST to the pull-request comment endpoint carries            *)
(* GITHUB_TOKEN whatever the provider, and the review POST carries the     *)
(* credential of the selected provider and no other: no Gemini or OpenAI   *)
(* key goes to the GitHub API, and GITHUB_TOKEN goes to neither the Gemini *)
(* nor the OpenAI endpoint.                                                *)
(***************************************************************************)
C25_CredentialsStayWithService ==
    /\ \A i \in DOMAIN commentPosts :
          commentPosts[i].auth = CredentialOf("api.github.com")
    /\ \A i \in DOMAIN reviewPosts :
          /\ reviewPosts[i].endpoint = AI_PROVIDERS[provider].endpoint
          /\ reviewPosts[i].auth = CredentialOf(reviewPosts[i].endpoint)

\* a Gemini run that posted a failure comment
C25_Witness ==
    /\ provider = "gemini"
    /\ Len(reviewPosts) = 1
    /\ reviewPosts[1].auth = "GEMINI_API_KEY"
    /\ Len(commentPosts) = 1
    /\ commentPosts[1].kind = "failure"
    /\ commentPosts[1].auth = "GITHUB_TOKEN"

(***************************************************************************)
(* Termination.  main is one chain of awaited calls; provided every        *)
(* external operation returns or fails, the step that follows it is taken. *)
(***************************************************************************)
\* Runs differ in their control flow by the validity of the environment, the
\* list of files and POST_SUCCESS_COMMENTS, not by which valid provider is
\* selected: one default, one explicit and one unsupported setting are kept.
InitFair ==
    /\ Init
    /\ env.AI_PROVIDER \in {"", "gemini", "claude"}
    /\ env.AI_PROVIDER = "gemini" => env.GITHUB_TOKEN
    /\ env.POST_SUCCESS_COMMENTS \in {"", "true"}

SpecFair == InitFair /\ [][Next]_vars /\ WF_vars(Next)

(***************************************************************************)
(* C26: every run whose external operations all return or fail reaches a   *)
(* terminal state, with exit code 0 or 1, and the loop over the changed    *)
(* files has then run once for each listed file or not at all.             *)
(***************************************************************************)
C26_RunTerminates ==
    <>[](/\ Terminated
         /\ exitCode \in {0, 1}
         /\ diffRequests \in {<<>>, config.changedFiles})

\* a run that went through the loop and every later stage to its end
C26_Witness ==
    /\ Terminated
    /\ exitCode = 0
    /\ config.changedFiles # <<>>
    /\ diffRequests = config.changedFiles
    /\ Len(reviewPosts) = 1
    /\ Len(commentPosts) = 1

(***************************************************************************)
(* callGemini (lines 173-212) with the response it parses and the          *)
(* reasoning trace it may log.                                             *)
(***************************************************************************)
\* responses of the Gemini endpoint: the status, whether candidates[0]
\* exists, the text of its first part and whether that part has a thought
GeminiResponses ==
    [status : {"ok", "status 500"}, candidate : BOOLEAN, text : RawTexts,
     thought : BOOLEAN]

DebugThinkingSettings == {"", "true", "false", "1"}

\* callGemini throws: lines 185-188, 194-196, 201-204
callGeminiThrows(response) ==
    \/ response.status # "ok"
    \/ ~response.candidate
    \/ Trim(response.text) = <<>>

\* line 207: the trace is logged
LogsThinking(response, setting) ==
    response.thought /\ setting # ""

\* main is about to call the Gemini provider
InitGemini ==
    /\ argvHelp = FALSE
    /\ env = [DiffEnv(<<Readme>>) EXCEPT !.AI_PROVIDER = "gemini",
                                            !.GEMINI_API_KEY = TRUE]
    /\ config = validateEnvironment(env, "gemini")
    /\ pc = "review"
    /\ provider = "gemini"
    /\ idx = 1
    /\ diffData = TryBranch(EmptyDiffData, Readme, "@@ -1 +1 @@", "file text")
    /\ diffFailures = {}
    /\ diffRequests = <<Readme>>
    /\ templates = [system |-> TRUE, user |-> TRUE, legacy |-> FALSE]
    /\ promptMode = "modern"
    /\ responseText = <<>>
    /\ verdict = "none"
    /\ gitCalls = 2
    /\ reviewPosts = <<>>
    /\ commentPosts = <<>>
    /\ exitCode = -1
    /\ PromptIdle
    /\ VerdictIdle
    /\ debugThinking \in DebugThinkingSettings
    /\ geminiResponse = NoGeminiResponse
    /\ thinkingLog = <<>>
    /\ MigrationIdle
    /\ PortIdle

\* callAIProvider with provider gemini (lines 217-230, 173-212) and the
\* catch of main
CallGemini ==
    /\ pc = "review"
    /\ provider = "gemini"
    /\ \E response \in GeminiResponses :
          /\ geminiResponse' = response
          /\ reviewPosts' = Append(reviewPosts,
                [endpoint |-> AI_PROVIDERS["gemini"].endpoint,
                 auth |-> config.token,
                 reply |-> IF response.status # "ok" THEN response.status
                           ELSE IF ~response.candidate THEN "no text field"
                           ELSE "ok",
                 blank |-> IsBlank(response.text)])
          /\ IF callGeminiThrows(response)
                THEN /\ Exit(1)
                     /\ UNCHANGED <<responseText, thinkingLog>>
                ELSE /\ thinkingLog' =
                           IF LogsThinking(response, debugThinking)
                             THEN Append(thinkingLog, "thought")
                             ELSE thinkingLog
                     /\ responseText' = Trim(response.text)
                     /\ pc' = "result"
                     /\ UNCHANGED exitCode
    /\ UNCHANGED <<argvHelp, env, provider, config, idx, diffData,
                   diffFailures, diffRequests, templates, promptMode,
                   verdict, gitCalls, commentPosts, debugThinking,
                   promptVars, verdictVars, migrationVars, portVars>>

NextGemini == CallGemini

SpecGemini == InitGemini /\ [][NextGemini]_vars

(***************************************************************************)
(* C27: with the gemini provider the reasoning trace is logged if and only *)
(* if the response carries one and DEBUG_THINKING equals "true"; with any  *)
(* other value, "false" included, or when it is unset, the trace is not    *)
(* logged; the returned text is the same either way.                       *)
(* Refuted: any non-empty DEBUG_THINKING, "false" included, logs the trace.*)
(***************************************************************************)
C27_TraceLoggedIffDebugTrue ==
    pc = "result" =>
        /\ thinkingLog # <<>>
              <=> (geminiResponse.thought /\ debugThinking = "true")
        /\ responseText = Trim(geminiResponse.text)

(***************************************************************************)
(* Migrations (migrations/20240408084244-address.js,                       *)
(* src/migrations/20240408084244-address-2.js, ...-agency.js,              *)
(* ...-client.js).  A step is a sequence of queryInterface calls between   *)
(* the start of a transaction and its end; every call may fail.  The       *)
(* database is the set of its tables, columns, indexes and enum types.     *)
(***************************************************************************)
Tbl(t) == [kind |-> "table", table |-> t, name |-> t]
Col(t, c) == [kind |-> "column", table |-> t, name |-> c]
Idx(t, n) == [kind |-> "index", table |-> t, name |-> n]
Typ(n) == [kind |-> "type", table |-> "", name |-> n]

\* a queryInterface call; tx tells whether its options carry the transaction
Call(op, t, n, enums, tx) ==
    [op |-> op, table |-> t, name |-> n, enums |-> enums, tx |-> tx]

Migrations == {"address", "address-2", "agency", "client"}

\* migrations that run their calls in sequelize.transaction(callback); the
\* address-2 migration begins and ends its transaction itself
Managed(m) == m # "address-2"

AddressIndexes ==
    <<"zip_code", "county", "county_fips", "city", "state",
      "idx_addresses_full", "idx_addresses_active">>

\* the calls of migrations/20240408084244-address.js; dropEnumTypesForTable
\* (imported from ~/util) drops the enum types of the listed columns
AddressSteps(dir) ==
    IF dir = "up"
      THEN <<Call("createTable", "addresses", "",
                  {"enum_addresses_county_fips", "enum_addresses_state"}, TRUE)>>
             \o [i \in 1..Len(AddressIndexes) |->
                    Call("addIndex", "addresses", AddressIndexes[i], {}, TRUE)]
      ELSE <<Call("dropTable", "addresses", "", {}, TRUE),
             Call("dropType", "", "enum_addresses_county_fips", {}, TRUE),
             Call("dropType", "", "enum_addresses_state", {}, TRUE)>>

\* mutant of Address2Steps: the calls do not carry the transaction
Address2Steps_outsideTransaction(dir) ==
    IF dir = "up"
      THEN <<Call("addColumn", "Addresses", "country", {}, FALSE),
             Call("addColumn", "Addresses", "timezone", {}, FALSE),
             Call("addColumn", "Addresses", "isResidential", {}, FALSE)>>
      ELSE <<Call("removeColumn", "Addresses", "isResidential", {}, FALSE),
             Call("removeColumn", "Addresses", "timezone", {}, FALSE),
             Call("removeColumn", "Addresses", "country", {}, FALSE)>>

\* the calls of src/migrations/20240408084244-address-2.js
Address2Steps(dir) ==
    IF dir = "up"
      THEN <<Call("addColumn", "Addresses", "country", {}, TRUE),
             Call("addColumn", "Addresses", "timezone", {}, TRUE),
             Call("addColumn", "Addresses", "isResidential", {}, TRUE)>>
      ELSE <<Call("removeColumn", "Addresses", "isResidential", {}, TRUE),
             Call("removeColumn", "Addresses", "timezone", {}, TRUE),
             Call("removeColumn", "Addresses", "country", {}, TRUE)>>

\* the calls of src/migrations/20240408084821-agency.js
AgencySteps(dir) ==
    IF dir = "up"
      THEN <<Call("createTable", "agencies", "", {"enum_agencies_state"}, TRUE)>>
      ELSE <<Call("dropTable", "agencies", "", {}, TRUE),
             Call("dropType", "", "enum_agencies_state", {}, TRUE)>>

\* the calls of src/migrations/20240408084831-client.js; down calls
\* dropTable('insureds', transaction): the transaction is passed in the
\* place of the options object, so the call does not carry it
ClientSteps(dir) ==
    IF dir = "up"
      THEN <<Call("createTable", "clients", "", {}, TRUE)>>
      ELSE <<Call("dropTable", "insureds", "", {}, FALSE)>>

\* the calls of a step, in order
Steps(m, dir) ==
    CASE m = "address" -> AddressSteps(dir)
      [] m = "address-2" -> Address2Steps(dir)
      [] m = "agency" -> AgencySteps(dir)
      [] m = "client" -> ClientSteps(dir)

\* the database rejects the call: a column is added to a missing table or
\* twice, a missing column is removed, an index is added to a missing table
\* or twice (createTable, dropTable and DROP TYPE are IF [NOT] EXISTS)
Rejected(call, db) ==
    CASE call.op = "addColumn" ->
           Tbl(call.table) \notin db \/ Col(call.table, call.name) \in db
      [] call.op = "removeColumn" -> Col(call.table, call.name) \notin db
      [] call.op = "addIndex" ->
           Tbl(call.table) \notin db \/ Idx(call.table, call.name) \in db
      [] OTHER -> FALSE

\* the database after the call
Applied(call, db) ==
    CASE call.op = "createTable" ->
           db \cup {Tbl(call.table)} \cup {Typ(n) : n \in call.enums}
      [] call.op = "dropTable" ->
           {o \in db : ~(o.kind # "type" /\ o.table = call.table)}
      [] call.op = "addColumn" -> db \cup {Col(call.table, call.name)}
      [] call.op = "removeColumn" -> db \ {Col(call.table, call.name)}
      [] call.op = "addIndex" -> db \cup {Idx(call.table, call.name)}
      [] call.op = "dropType" -> db \ {Typ(call.name)}

\* the values of the linter's variables while no linter runs
LinterIdle ==
    /\ argvHelp = FALSE
    /\ env = DiffEnv(<<>>)
    /\ pc = "idle"
    /\ provider = ""
    /\ config = NoConfig
    /\ idx = 0
    /\ diffData = EmptyDiffData
    /\ diffFailures = {}
    /\ diffRequests = <<>>
    /\ templates = NoTemplates
    /\ promptMode = "none"
    /\ responseText = <<>>
    /\ verdict = "none"
    /\ gitCalls = 0
    /\ reviewPosts = <<>>
    /\ commentPosts = <<>>
    /\ exitCode = -1

\* tables of the application that none of the four migrations creates
OtherTables == {Tbl("Addresses"), Tbl("insureds")}

\* a migration is about to run its up step on a database that has none of
\* the objects it creates
InitSchema ==
    /\ LinterIdle
    /\ PromptIdle
    /\ VerdictIdle
    /\ GeminiIdle
    /\ PortIdle
    /\ migration \in Migrations
    /\ direction = "up"
    /\ mpc = "begin"
    /\ opIdx = 0
    /\ schema \in SUBSET OtherTables
    /\ working = schema
    /\ txnCalls = <<>>
    /\ thrown = FALSE
    /\ schemaBefore = schema

\* queryInterface.sequelize.transaction(): the transaction starts, or the
\* call rejects before the try block
BeginTransaction ==
    /\ mpc = "begin"
    /\ \E ok \in BOOLEAN :
          IF ok
            THEN /\ txnCalls' = Append(txnCalls, "transaction")
                 /\ working' = schema
                 /\ mpc' = "calls"
                 /\ UNCHANGED thrown
            ELSE /\ thrown' = TRUE
                 /\ mpc' = "done"
                 /\ UNCHANGED <<txnCalls, working>>
    /\ UNCHANGED <<migration, direction, opIdx, schema, schemaBefore,
                   runVars, promptVars, verdictVars, geminiVars, portVars>>

\* the next await queryInterface.<call>(...) of the step
QueryInterfaceCall ==
    /\ mpc = "calls"
    /\ opIdx < Len(Steps(migration, direction))
    /\ LET call == Steps(migration, direction)[opIdx + 1]
           db == IF call.tx THEN working ELSE schema
       IN  \E connectionLost \in BOOLEAN :
              IF connectionLost \/ Rejected(call, db)
                THEN /\ mpc' = "catch"
                     /\ UNCHANGED <<opIdx, schema, working>>
                ELSE /\ opIdx' = opIdx + 1
                     /\ working' = Applied(call, working)
                     /\ schema' = IF call.tx THEN schema
                                  ELSE Applied(call, schema)
                     /\ UNCHANGED mpc
    /\ UNCHANGED <<migration, direction, txnCalls, thrown, schemaBefore,
                   runVars, promptVars, verdictVars, geminiVars, portVars>>

\* commit after the last call: transaction.commit() inside the try block of
\* address-2, the commit of sequelize.transaction(callback) elsewhere
Commit ==
    /\ mpc = "calls"
    /\ opIdx = Len(Steps(migration, direction))
    /\ txnCalls' = Append(txnCalls, "commit")
    /\ \E ok \in BOOLEAN :
          IF ok
            THEN /\ schema' = working
                 /\ mpc' = "done"
                 /\ UNCHANGED thrown
            ELSE /\ UNCHANGED schema
                 /\ IF Managed(migration)
                       THEN mpc' = "done" /\ thrown' = TRUE
                       ELSE mpc' = "catch" /\ UNCHANGED thrown
    /\ UNCHANGED <<migration, direction, opIdx, working, schemaBefore,
                   runVars, promptVars, verdictVars, geminiVars, portVars>>

\* catch (err) { await transaction.rollback(); throw err }, and the rollback
\* of sequelize.transaction(callback) when the callback rejects
Rollback ==
    /\ mpc = "catch"
    /\ txnCalls' = Append(txnCalls, "rollback")
    /\ working' = schema
    /\ thrown' = TRUE
    /\ mpc' = "done"
    /\ UNCHANGED <<migration, direction, opIdx, schema, schemaBefore,
                   runVars, promptVars, verdictVars, geminiVars, portVars>>

\* the down step of the migration is run after its up step has succeeded
StartDown ==
    /\ direction = "up"
    /\ mpc = "done"
    /\ ~thrown
    /\ direction' = "down"
    /\ mpc' = "begin"
    /\ opIdx' = 0
    /\ txnCalls' = <<>>
    /\ UNCHANGED <<migration, schema, working, thrown, schemaBefore,
                   runVars, promptVars, verdictVars, geminiVars, portVars>>

NextMigration ==
    \/ BeginTransaction
    \/ QueryInterfaceCall
    \/ Commit
    \/ Rollback
    \/ StartDown

SpecMigration == InitSchema /\ [][NextMigration]_vars


\* the three columns of the address-2 migration
Address2Columns ==
    {Col("Addresses", c) : c \in {"country", "timezone", "isResidential"}}

\* C28 as stated: a step of the address-2 migration runs its three calls in
\* one transaction that is ended exactly once, by commit when all three
\* succeed and by rollback with the error rethrown otherwise, and no proper
\* subset of the three columns ever persists
C28_EndedExactlyOnce ==
    migration = "address-2" =>
       /\ schema \cap Address2Columns \in {{}, Address2Columns}
       /\ (mpc = "done" /\ ~thrown) =>
             txnCalls = <<"transaction", "commit">>
       /\ (mpc = "done" /\ thrown) =>
             txnCalls \in {<<>>, <<"transaction", "rollback">>}

\* C28 amended: in every state of a step of the address-2 migration the
\* database holds all three columns or none; a step that returns has begun
\* one transaction and committed it once, with all three columns added (up)
\* or removed (down); a step that throws has left the database as it was
\* before the step and, unless the transaction could not be started, ends
\* with a rollback call, which follows a commit call only when that commit
\* failed
C28_AllOrNothing ==
    migration = "address-2" =>
       /\ schema \cap Address2Columns \in {{}, Address2Columns}
       /\ \A i \in 1..Len(Address2Steps(direction)) :
             Address2Steps(direction)[i].tx
       /\ (mpc = "done" /\ ~thrown) =>
             /\ txnCalls = <<"transaction", "commit">>
             /\ direction = "up" => Address2Columns \subseteq schema
             /\ direction = "down" => schema \cap Address2Columns = {}
       /\ (mpc = "done" /\ thrown) =>
             /\ txnCalls \in {<<>>, <<"transaction", "rollback">>,
                              <<"transaction", "commit", "rollback">>}
             /\ direction = "up" => schema = schemaBefore
             /\ direction = "down" => Address2Columns \subseteq schema
             /\ working = schema

\* the third call of the up step failed after two
\* columns were added inside the transaction, and the step rolled back
C28_Witness ==
    /\ migration = "address-2"
    /\ direction = "up"
    /\ mpc = "done"
    /\ thrown
    /\ opIdx = 2
    /\ txnCalls = <<"transaction", "rollback">>
    /\ schema \cap Address2Columns = {}

\* C29: for each of the four migrations, running up and then down returns
\* the schema to the state before up, every call of down being made inside
\* the migration's transaction
C29_DownRestoresSchema ==
    (direction = "down" /\ mpc = "done" /\ ~thrown) =>
       /\ schema = schemaBefore
       /\ \A i \in 1..Len(Steps(migration, "down")) :
             Steps(migration, "down")[i].tx


(***************************************************************************)
(* The shell linter (.github/scripts/run-convention-linter.sh) and its     *)
(* JavaScript port (unnamed/part_000), run one after the other by the same *)
(* workflow step: same environment variables, same outcome of every git    *)
(* command, same answer of the GitHub Models endpoint.                     *)
(***************************************************************************)
PortEnvNames == {"GITHUB_BASE_REF", "GITHUB_TOKEN", "GITHUB_ENV"}

\* what git diff origin/$GITHUB_BASE_REF HEAD -- "$file" gives for a file
FileDiffOutcomes == {"non-empty", "empty", "failure"}

\* .choices[0].message.content of the answer, before any trimming
PortReplyTexts ==
    SeqsUpTo(RespChars, MaxRespLen) \cup {<<"null">>, <<"API_ERROR">>}

\* the answer to the POST: no answer at all, a status outside 200-299 with
\* a JSON error body, a 200 body without choices[0].message.content, or a
\* 200 body with a content string
PortReplies ==
    {[kind |-> k, text |-> <<>>] :
        k \in {"network_failure", "http_error", "no_content"}}
      \cup {[kind |-> "content", text |-> t] : t \in PortReplyTexts}

\* CHANGED_FILES is unset (or empty), holds only spaces, or lists files;
\* without a base ref every git diff origin/ HEAD fails, and without a
\* token the endpoint answers 401
CiInputs ==
    {in \in [missing : SUBSET PortEnvNames,
             changedFiles : {"unset", "blank", "list"},
             outcomes : SeqsUpTo(FileDiffOutcomes, MaxFiles),
             fetchOk : BOOLEAN,
             reply : PortReplies] :
        /\ (in.changedFiles = "list") = (in.outcomes # <<>>)
        /\ "GITHUB_BASE_REF" \in in.missing =>
              \A i \in 1..Len(in.outcomes) : in.outcomes[i] = "failure"
        /\ "GITHUB_TOKEN" \in in.missing => in.reply.kind = "http_error"}

InitPort ==
    /\ LinterIdle
    /\ PromptIdle
    /\ VerdictIdle
    /\ GeminiIdle
    /\ MigrationIdle
    /\ ciInputs \in CiInputs
    /\ shRun = [NoScriptRun EXCEPT !.pc = "fetch", !.status = "running"]
    /\ portRun = NoScriptRun

PortUnchanged ==
    UNCHANGED <<ciInputs, runVars, promptVars, verdictVars, geminiVars,
                migrationVars>>

\* the script ends: exit status 0 is "pass", any other status "fail"
Ended(run, status) == [run EXCEPT !.pc = "done", !.status = status]

\* sh lines 9-12: git fetch and cat of the template under set -e
ShFetch ==
    /\ shRun.pc = "fetch"
    /\ shRun' = IF ciInputs.fetchOk
                  THEN [shRun EXCEPT !.pc = "diff"]
                  ELSE Ended(shRun, "fail")
    /\ UNCHANGED portRun
    /\ PortUnchanged

\* sh lines 18-31: one iteration of the loop; a failing git diff ends the
\* script (set -e), an empty diff is skipped
ShDiffFile ==
    /\ shRun.pc = "diff"
    /\ shRun.idx < Len(ciInputs.outcomes)
    /\ LET i == shRun.idx + 1
           outcome == ciInputs.outcomes[i]
       IN  shRun' =
              CASE outcome = "failure" -> Ended(shRun, "fail")
                [] outcome = "empty" -> [shRun EXCEPT !.idx = i]
                [] outcome = "non-empty" ->
                     [shRun EXCEPT !.idx = i,
                                   !.diffContent = Append(@, i)]
    /\ UNCHANGED portRun
    /\ PortUnchanged

\* sh lines 34-76: the prompt is built and posted whatever DIFF_CONTENT is;
\* a failing curl ends the script (set -e), jq turns a missing content into
\* API_ERROR, and API_ERROR or null is an invalid response
ShCallApi ==
    /\ shRun.pc = "diff"
    /\ shRun.idx = Len(ciInputs.outcomes)
    /\ LET reply == ciInputs.reply
           called == [shRun EXCEPT !.calls = @ + 1]
       IN  shRun' =
              IF \/ reply.kind # "content"
                 \/ reply.text \in {<<"API_ERROR">>, <<"null">>}
                THEN Ended(called, "fail")
                ELSE [called EXCEPT !.pc = "report",
                                    !.responseText = reply.text]
    /\ UNCHANGED portRun
    /\ PortUnchanged

\* sh lines 83-91: the entry is appended to $GITHUB_ENV (the redirection
\* fails when the variable is empty) and the text is compared with OK
ShReport ==
    /\ shRun.pc = "report"
    /\ shRun' =
          IF "GITHUB_ENV" \in ciInputs.missing
            THEN Ended(shRun, "fail")
            ELSE Ended([shRun EXCEPT !.output = Append(@, shRun.responseText)],
                       IF shRun.responseText = <<"O", "K">> THEN "pass"
                       ELSE "fail")
    /\ UNCHANGED portRun
    /\ PortUnchanged

\* part_000 lines 21-32: the four variables are required; a list without
\* any name returns
PortValidate ==
    /\ shRun.pc = "done"
    /\ portRun.pc = "idle"
    /\ portRun' =
          CASE ciInputs.missing # {} \/ ciInputs.changedFiles = "unset" ->
                 Ended(portRun, "fail")
            [] OTHER ->
                 IF ciInputs.changedFiles = "blank"
                   THEN Ended(portRun, "pass")
                   ELSE [portRun EXCEPT !.pc = "fetch",
                                        !.status = "running"]
    /\ UNCHANGED shRun
    /\ PortUnchanged

\* part_000 lines 37-41: git fetch and readFileSync inside the outer try
PortFetch ==
    /\ portRun.pc = "fetch"
    /\ portRun' = IF ciInputs.fetchOk
                    THEN [portRun EXCEPT !.pc = "diff"]
                    ELSE Ended(portRun, "fail")
    /\ UNCHANGED shRun
    /\ PortUnchanged

\* part_000 lines 45-55: one iteration of the loop; a failing git diff is
\* caught and the loop goes on
PortDiffFile ==
    /\ portRun.pc = "diff"
    /\ portRun.idx < Len(ciInputs.outcomes)
    /\ LET i == portRun.idx + 1
       IN  portRun' =
              IF ciInputs.outcomes[i] = "non-empty"
                THEN [portRun EXCEPT !.idx = i,
                                     !.diffContent = Append(@, i)]
                ELSE [portRun EXCEPT !.idx = i]
    /\ UNCHANGED shRun
    /\ PortUnchanged

\* part_000 lines 57-60: without any diff text the API call is skipped
PortSkipApi ==
    /\ portRun.pc = "diff"
    /\ portRun.idx = Len(ciInputs.outcomes)
    /\ portRun.diffContent = <<>>
    /\ portRun' = Ended(portRun, "pass")
    /\ UNCHANGED shRun
    /\ PortUnchanged

\* part_000 lines 63-100: fetch; a rejected fetch, a status that is not ok,
\* and a content that is missing or blank after trim() end the run
PortCallApi ==
    /\ portRun.pc = "diff"
    /\ portRun.idx = Len(ciInputs.outcomes)
    /\ portRun.diffContent # <<>>
    /\ LET reply == ciInputs.reply
           called == [portRun EXCEPT !.calls = @ + 1]
       IN  portRun' =
              IF reply.kind # "content" \/ Trim(reply.text) = <<>>
                THEN Ended(called, "fail")
                ELSE [called EXCEPT !.pc = "report",
                                    !.responseText = Trim(reply.text)]
    /\ UNCHANGED shRun
    /\ PortUnchanged

\* part_000 lines 107-115: appendFileSync of the entry, then the comparison
PortReport ==
    /\ portRun.pc = "report"
    /\ portRun' =
          Ended([portRun EXCEPT !.output = Append(@, portRun.responseText)],
                IF PortVerdictPasses(portRun.responseText) THEN "pass"
                ELSE "fail")
    /\ UNCHANGED shRun
    /\ PortUnchanged

NextPort ==
    \/ ShFetch
    \/ ShDiffFile
    \/ ShCallApi
    \/ ShReport
    \/ PortValidate
    \/ PortFetch
    \/ PortDiffFile
    \/ PortSkipApi
    \/ PortCallApi
    \/ PortReport

SpecPort == InitPort /\ [][NextPort]_vars

\* C30: on the same environment variables, diff outcomes and review
\* response, the shell linter and its port make the same number of review
\* calls, write the same LINTER_OUTPUT entry and end with the same pass/fail
\* status
C30_PortEquivalent ==
    (shRun.pc = "done" /\ portRun.pc = "done") =>
       /\ shRun.calls = portRun.calls
       /\ shRun.output = portRun.output
       /\ shRun.status = portRun.status

====
